---- MODULE Spec2Model ----
(***************************************************************************)
(* A model of src/clientWrapper.js: the promise chains of init,            *)
(* simulateAgentAction and executeActionArray over the five leaf HTTP      *)
(* operations.                                                             *)
(*                                                                         *)
(* The JavaScript event loop is modelled as it runs the code: one action   *)
(* is one job.  A job is the synchronous part of an exported call, one     *)
(* promise reaction (a .then / .catch handler, taken from the microtask    *)
(* queue in FIFO order) or one transport callback (taken only when the     *)
(* microtask queue is empty).  Each behaviour makes one exported call.     *)
(***************************************************************************)
EXTENDS Integers, Sequences, FiniteSets, TLC

\* Longest actions list handed to executeActionArray.
MaxActions == 2

-----------------------------------------------------------------------------
(* JavaScript values.  Every field name carries one type of value.         *)

JUndef == [t |-> "undefined"]
JNull == [t |-> "null"]
JNaN == [t |-> "number", nan |-> TRUE]
\* whole = FALSE stands for the non-integer number n + 0.5
JNum(n) == [t |-> "number", n |-> n, whole |-> TRUE]
JHalf(n) == [t |-> "number", n |-> n, whole |-> FALSE]
JStr(s) == [t |-> "string", s |-> s]
JText(s, arg) == [t |-> "string", s |-> s, arg |-> arg]
JError(s) == [t |-> "Error", s |-> s]
JTypeError == [t |-> "TypeError"]

\* ToBoolean
Truthy(v) ==
    CASE v.t = "undefined" -> FALSE
      [] v.t = "null" -> FALSE
      [] v.t = "number" -> IF "nan" \in DOMAIN v THEN FALSE ELSE ~(v.whole /\ v.n = 0)
      [] v.t = "string" -> v.s # ""
      [] OTHER -> TRUE

\* Number.isInteger
IsInteger(v) == v.t = "number" /\ "nan" \notin DOMAIN v /\ v.whole

\* v == null
LooseEqNull(v) == v.t \in {"null", "undefined"}

\* v == s for a string literal s: a number is compared with ToNumber(s),
\* which is NaN for the only literal the code uses ('undefined'); undefined
\* and null equal no string; an object is compared by its ToPrimitive string.
LooseEqString(v, s) ==
    CASE v.t = "string" -> "arg" \notin DOMAIN v /\ v.s = s
      [] OTHER -> FALSE

AgentAction ==
    [moveForward |-> "moveForward", turnLeft |-> "turnLeft", turnRight |-> "turnRight",
     pickUp |-> "pickUp", drop |-> "drop", idle |-> "idle"]

\* Object.values(AgentAction).includes(action)
IsAgentAction(action) ==
    /\ action.t = "string"
    /\ "arg" \notin DOMAIN action
    /\ \E k \in DOMAIN AgentAction : AgentAction[k] = action.s

\* an array literal
JArray(items) == [t |-> "array", items |-> items]

\* the decimal text of an integer
Digit == <<"0", "1", "2", "3", "4", "5", "6", "7", "8", "9">>

RECURSIVE DecimalOf(_)
DecimalOf(n) ==
    IF n < 0 THEN "-" \o DecimalOf(-n)
    ELSE IF n < 10 THEN Digit[n + 1]
    ELSE DecimalOf(n \div 10) \o Digit[(n % 10) + 1]

\* ToString, as string concatenation and JSON.parse apply it to a value
\* that is not a message built here
RECURSIVE ToStr(_)
ToStr(v) ==
    CASE v.t = "string" -> v.s
      [] v.t = "number" ->
             IF "nan" \in DOMAIN v THEN "NaN"
             ELSE IF v.whole THEN DecimalOf(v.n)
             ELSE DecimalOf(v.n) \o ".5"
      [] v.t = "undefined" -> "undefined"
      [] v.t = "null" -> "null"
      [] v.t = "array" ->
             IF v.items = <<>> THEN ""
             ELSE IF Len(v.items) = 1 THEN ToStr(v.items[1])
             ELSE ToStr(v.items[1]) \o "," \o ToStr(JArray(Tail(v.items)))
      [] v.t = "Error" -> "Error: " \o v.s
      [] v.t = "TypeError" -> "TypeError"
      [] OTHER -> "[object Object]"

\* process.env.SIMULATION_SERVER, set by the environment
hostname == "sim.example.org"
apiBase == "https://" \o hostname \o "/api/"

-----------------------------------------------------------------------------
(* Inputs of the exported calls and outcomes of the transport.             *)

SimulationInputs == {JNum(0), JNum(1), JHalf(1), JStr("1"), JUndef}
AgentInputs == {JNum(0), JNum(1), JHalf(1), JStr("undefined"), JUndef}
ActionInputs == {JStr(AgentAction[k]) : k \in DOMAIN AgentAction} \cup {JStr("jump"), JUndef}
ModeInputs == {JStr("fast"), JNull}
EnvInputs == {JStr("HW1"), JStr("HW2")}
\* the actions executeActionArray's lists are built from
ListActions == {JStr(AgentAction.moveForward), JStr(AgentAction.idle), JStr("jump")}
ActionLists == UNION {[1..n -> ListActions] : n \in 0..MaxActions}

StatusCodes == {200, 201, 400, 415, 500}

\* Bodies the service answers a create request with: the documented shape,
\* one whose count is a number, one without simulationData, and no body.
CreateBodies ==
    {[t |-> "object", simulationId |-> JNum(1),
      simulationData |-> [t |-> "object", NumAgents |-> JStr("2")]],
     [t |-> "object", simulationId |-> JNum(2),
      simulationData |-> [t |-> "object", NumAgents |-> JNum(1)]],
     [t |-> "object", simulationId |-> JNum(1), simulationData |-> JUndef],
     JUndef}

\* Bodies of a start or status response, which the transport hands over as
\* text: JSON text or plain text.
TextBodies == {JStr("{\"a\":1}"), JStr("ok")}

\* Body of an action or step response, which the transport has decoded
\* (json: true).
DecodedBodies == {[t |-> "object", a |-> JNum(1)]}

\* What the transport hands a callback: (error, response, body).  Either an
\* error and no response, or a response with a status code and a body.
NoResponse ==
    [has |-> FALSE, statusCode |-> 0, error |-> JError("ECONNREFUSED"), body |-> JUndef]
Response(code, body) == [has |-> TRUE, statusCode |-> code, error |-> JNull, body |-> body]

Outcomes(op) ==
    {NoResponse}
    \cup {Response(c, b) : c \in {200, 201},
                            b \in CASE op = "create" -> CreateBodies
                                     [] op \in {"action", "step"} -> DecodedBodies
                                     [] OTHER -> TextBodies}
    \cup {Response(c, JStr("failed")) : c \in StatusCodes \ {200, 201}}

-----------------------------------------------------------------------------
(* The machine: promises, the microtask queue, the transport's requests.   *)

VARIABLES
    call,            \* the exported call made, [op |-> "none"] before it
    returned,        \* what the exported call returned: "none", "promise", "undefined"
    prom,            \* promise key -> [st, val, onRes, onRej]
    micro,           \* microtask queue of reaction jobs [h, cyc, v]
    net,             \* every request issued, in order
    open,            \* indices of net whose callback has not fired
    fired,           \* [i, r]: the callback of request net[i] has fired with outcome r
    invoked,         \* every function invocation, in order
    index,           \* executeActionArray's index
    createResponse,  \* init: the create handler's argument
    response,        \* init: the result being assembled
    uncaught,        \* exceptions thrown out of transport callbacks
    data,            \* getObject applied on its own: the argument of the first call
    decoded          \* and what each successive call returned

vars ==
    <<call, returned, prom, micro, net, open, fired, invoked, index, createResponse,
      response, uncaught, data, decoded>>

PromNames == {"init", "create", "start", "status", "perform", "step", "cycle", "array"}
\* cycle 0 is init / a direct call; cycle c >= 1 is the c-th action cycle
PromKeys == PromNames \X (0..MaxActions + 1)

NoPromise == [st |-> "none", val |-> JUndef, onRes |-> "none", onRej |-> "none"]

\* The mutable state as one record, threaded through the operators below.
M ==
    [prom |-> prom, micro |-> micro, net |-> net, open |-> open, fired |-> fired,
     invoked |-> invoked, index |-> index, createResponse |-> createResponse,
     response |-> response, uncaught |-> uncaught]

Becomes(m) ==
    /\ prom' = m.prom
    /\ micro' = m.micro
    /\ net' = m.net
    /\ open' = m.open
    /\ fired' = m.fired
    /\ invoked' = m.invoked
    /\ index' = m.index
    /\ createResponse' = m.createResponse
    /\ response' = m.response
    /\ uncaught' = m.uncaught
    /\ UNCHANGED <<data, decoded>>

\* new Promise(...)
NewPromise(m, key) ==
    [m EXCEPT !.prom[key] = [st |-> "pending", val |-> JUndef, onRes |-> "none", onRej |-> "none"]]

\* resolve / reject as they would be if a settled promise could be settled
\* again
Settle_Overwrites(m, key, st, val) ==
    LET p == m.prom[key]
        h == IF st = "resolved" THEN p.onRes ELSE p.onRej
        m1 == [m EXCEPT !.prom[key].st = st, !.prom[key].val = val]
    IN  IF h = "none" THEN m1
        ELSE [m1 EXCEPT !.micro = Append(@, [h |-> h, cyc |-> key[2], v |-> val])]

\* resolve(val) / reject(val): only a pending promise changes, and its
\* registered reaction is queued as a microtask.
Settle(m, key, st, val) ==
    LET p == m.prom[key]
        h == IF st = "resolved" THEN p.onRes ELSE p.onRej
        m1 == [m EXCEPT !.prom[key].st = st, !.prom[key].val = val]
    IN  IF p.st # "pending" THEN m
        ELSE IF h = "none" THEN m1
        ELSE [m1 EXCEPT !.micro = Append(@, [h |-> h, cyc |-> key[2], v |-> val])]

\* p.then(onRes).catch(onRej): registers the reactions; a promise already
\* settled queues its reaction at once.
Then(m, key, onRes, onRej) ==
    LET p == m.prom[key]
        h == IF p.st = "resolved" THEN onRes ELSE onRej
        m1 == [m EXCEPT !.prom[key].onRes = onRes, !.prom[key].onRej = onRej]
    IN  IF p.st = "pending" \/ h = "none" THEN m1
        ELSE [m1 EXCEPT !.micro = Append(@, [h |-> h, cyc |-> key[2], v |-> p.val])]

\* a handler or callback throws: a handler's exception rejects the promise
\* derived by .then, whose .catch reaction is queued
ThrowInHandler(m, c, onRej, exc) ==
    [m EXCEPT !.micro = Append(@, [h |-> onRej, cyc |-> c, v |-> exc])]

\* an exception thrown by a transport callback is caught by nobody
ThrowInCallback(m, exc) == [m EXCEPT !.uncaught = Append(@, exc)]

Invoke(m, fn, c, simulation, agent, action, mode) ==
    [m EXCEPT !.invoked = Append(@, [fn |-> fn, cyc |-> c, simulation |-> simulation,
                                     agent |-> agent, action |-> action, mode |-> mode])]

\* request.post / request.put / request.get
Request(m, op, method, url, c, simulation, agent, body) ==
    [m EXCEPT !.net = Append(@, [op |-> op, method |-> method, url |-> url, cyc |-> c,
                                 simulation |-> simulation, agent |-> agent, body |-> body]),
              !.open = @ \cup {Len(m.net) + 1}]

-----------------------------------------------------------------------------
(* The leaf operations: the synchronous part of each, and its callback.    *)

createSimulation(m, env) ==
    LET m1 == NewPromise(Invoke(m, "createSimulation", 0, JUndef, JUndef, JUndef, JUndef),
                         <<"create", 0>>)
    IN  Request(m1, "create", "POST", apiBase \o "simulations/create", 0, JUndef, JUndef, [t |-> "object", env_name |-> env])

\* the statuses createSimulation and performAgentAction resolve on
CreatedOrOk(r) == r.has /\ (r.statusCode = 201 \/ r.statusCode = 200)

createSimulationCallback(m, r) ==
    IF CreatedOrOk(r)
    THEN Settle(m, <<"create", 0>>, "resolved", r.body)
    ELSE Settle(m, <<"create", 0>>, "rejected", IF Truthy(r.error) THEN r.error ELSE r.body)

startSimulation(m, simulation) ==
    LET m1 == NewPromise(Invoke(m, "startSimulation", 0, simulation, JUndef, JUndef, JUndef),
                         <<"start", 0>>)
    IN  Request(m1, "start", "PUT", apiBase \o "simulations/" \o ToStr(simulation) \o "/start",
                0, simulation, JUndef, JUndef)

\* ExactlyOk as it would be if it accepted 201 like createSimulation
ExactlyOk_AcceptsCreated(r) == r.statusCode = 200 \/ r.statusCode = 201

\* the status startSimulation, getAgentStatus and simulateStep resolve on
ExactlyOk(r) == r.statusCode = 200

startSimulationCallback(m, r) ==
    IF ~r.has THEN ThrowInCallback(m, JTypeError)
    ELSE IF ExactlyOk(r) THEN Settle(m, <<"start", 0>>, "resolved", r.body)
    ELSE Settle(m, <<"start", 0>>, "rejected", r.body)

getAgentStatus(m, c, simulation, agent) ==
    LET m1 == NewPromise(Invoke(m, "getAgentStatus", c, simulation, agent, JUndef, JUndef),
                         <<"status", c>>)
    IN  Request(m1, "status", "GET",
                apiBase \o "simulations/" \o ToStr(simulation) \o "/agents/" \o ToStr(agent)
                        \o "/status",
                c, simulation, agent, JUndef)

getAgentStatusCallback(m, c, r) ==
    IF ~r.has THEN ThrowInCallback(m, JTypeError)
    ELSE IF ExactlyOk(r) THEN Settle(m, <<"status", c>>, "resolved", r.body)
    ELSE Settle(m, <<"status", c>>, "rejected", IF Truthy(r.error) THEN r.error ELSE r.body)

\* The four checks of performAgentAction, in source order.  None of them
\* returns: each failing one calls reject, and the request is posted anyway.
InvalidSimulation(simulation) == ~Truthy(simulation) \/ ~IsInteger(simulation)
InvalidAgent(agent) == LooseEqString(agent, "undefined") \/ ~IsInteger(agent)
InvalidAction(action) == ~Truthy(action) \/ ~IsAgentAction(action)
InvalidMode(agentMode) == LooseEqNull(agentMode)

\* performAgentAction as it would be with the two ids swapped in the url
performAgentAction_SwapsIds(m, c, simulation, agent, action, agentMode) ==
    LET key == <<"perform", c>>
        m0 == NewPromise(Invoke(m, "performAgentAction", c, simulation, agent, action, agentMode),
                         key)
        m1 == IF InvalidSimulation(simulation)
              THEN Settle(m0, key, "rejected", JText("Invalid Simulation ID ", simulation))
              ELSE m0
        m2 == IF InvalidAgent(agent)
              THEN Settle(m1, key, "rejected", JText("Invalid Agent ID ", agent))
              ELSE m1
        m3 == IF InvalidAction(action)
              THEN Settle(m2, key, "rejected", JText("Invalid action ", action))
              ELSE m2
        m4 == IF InvalidMode(agentMode)
              THEN Settle(m3, key, "rejected", JText("Invalid action ", agentMode))
              ELSE m3
    IN  Request(m4, "action", "POST",
                apiBase \o "simulations/" \o ToStr(agent) \o "/agents/" \o ToStr(simulation)
                        \o "/action",
                c, simulation, agent, [t |-> "object", action |-> action, mode |-> agentMode])

performAgentAction(m, c, simulation, agent, action, agentMode) ==
    LET key == <<"perform", c>>
        m0 == NewPromise(Invoke(m, "performAgentAction", c, simulation, agent, action, agentMode),
                         key)
        m1 == IF InvalidSimulation(simulation)
              THEN Settle(m0, key, "rejected", JText("Invalid Simulation ID ", simulation))
              ELSE m0
        m2 == IF InvalidAgent(agent)
              THEN Settle(m1, key, "rejected", JText("Invalid Agent ID ", agent))
              ELSE m1
        m3 == IF InvalidAction(action)
              THEN Settle(m2, key, "rejected", JText("Invalid action ", action))
              ELSE m2
        m4 == IF InvalidMode(agentMode)
              THEN Settle(m3, key, "rejected", JText("Invalid action ", agentMode))
              ELSE m3
    IN  Request(m4, "action", "POST",
                apiBase \o "simulations/" \o ToStr(simulation) \o "/agents/" \o ToStr(agent)
                        \o "/action",
                c, simulation, agent, [t |-> "object", action |-> action, mode |-> agentMode])

\* response == n, for the response object (or undefined) the transport
\* hands the callback: undefined equals no number, and an object is compared
\* through its primitive, the string "[object Object]", whose number is NaN.
ResponseLooseEq(r, n) ==
    LET asNumber == IF r.has THEN JNaN ELSE JUndef
    IN  asNumber.t = "number" /\ "nan" \notin DOMAIN asNumber /\ asNumber.n = n

performAgentActionCallback(m, c, r) ==
    LET key == <<"perform", c>>
        req == CHOOSE q \in {m.net[i] : i \in 1..Len(m.net)} : q.op = "action" /\ q.cyc = c
    IN  IF CreatedOrOk(r) THEN Settle(m, key, "resolved", r.body)
        ELSE IF ResponseLooseEq(r, 400)
        THEN Settle(m, key, "rejected",
                    [t |-> "Error", s |-> "400 - Invalid actionid or simulationid ",
                     action |-> req.body.action, simulation |-> req.simulation])
        ELSE IF ResponseLooseEq(r, 415)
        THEN Settle(m, key, "rejected", JError("415 - no JSON specified"))
        ELSE IF ~r.has THEN ThrowInCallback(m, JTypeError)
        ELSE Settle(m, key, "rejected",
                    [t |-> "string", s |-> " Error : ", code |-> r.statusCode, error |-> r.error])

simulateStep(m, c, simulation) ==
    LET key == <<"step", c>>
        m0 == NewPromise(Invoke(m, "simulateStep", c, simulation, JUndef, JUndef, JUndef), key)
        m1 == IF InvalidSimulation(simulation)
              THEN Settle(m0, key, "rejected", JText("Invalid Simulation ID ", simulation))
              ELSE m0
    IN  Request(m1, "step", "PUT", apiBase \o "simulations/" \o ToStr(simulation) \o "/step",
                c, simulation, JUndef, [t |-> "object"])

simulateStepCallback(m, c, r) ==
    IF r.has /\ ExactlyOk(r) THEN Settle(m, <<"step", c>>, "resolved", r.body)
    ELSE IF ~r.has THEN ThrowInCallback(m, JTypeError)
    ELSE Settle(m, <<"step", c>>, "rejected",
                [t |-> "string", s |-> " Error : ", code |-> r.statusCode, error |-> r.error])

-----------------------------------------------------------------------------
(* simulateAgentAction: the action cycle and its six handlers.  The        *)
(* promises derived by .then/.catch are not kept: every handler settles    *)
(* the cycle's promise itself and none of them throws.                     *)

\* simulateAgentAction as it would be if the step were not chained on the
\* action's promise
simulateAgentAction_StepsAtOnce(m, c, simulation, agent, action, agentMode) ==
    LET m1 == NewPromise(Invoke(m, "simulateAgentAction", c, simulation, agent, action, agentMode),
                         <<"cycle", c>>)
        m2 == performAgentAction(m1, c, simulation, agent, action, agentMode)
        m3 == Then(m2, <<"perform", c>>, "none", "actionCatch")
    IN  Then(simulateStep(m3, c, simulation), <<"step", c>>, "stepThen", "stepCatch")

simulateAgentAction(m, c, simulation, agent, action, agentMode) ==
    LET m1 == NewPromise(Invoke(m, "simulateAgentAction", c, simulation, agent, action, agentMode),
                         <<"cycle", c>>)
        m2 == performAgentAction(m1, c, simulation, agent, action, agentMode)
    IN  Then(m2, <<"perform", c>>, "actionThen", "actionCatch")

\* actionThen as it would be if it read the status without stepping
actionThen_SkipsStep(m, j, a) ==
    Then(getAgentStatus(m, j.cyc, a.simulation, a.agent), <<"status", j.cyc>>,
         "statusThen", "statusCatch")

actionThen(m, j, a) ==
    Then(simulateStep(m, j.cyc, a.simulation), <<"step", j.cyc>>, "stepThen", "stepCatch")

stepThen(m, j, a) ==
    Then(getAgentStatus(m, j.cyc, a.simulation, a.agent), <<"status", j.cyc>>,
         "statusThen", "statusCatch")

statusThen(m, j) == Settle(m, <<"cycle", j.cyc>>, "resolved", j.v)

statusCatch(m, j) == Settle(m, <<"cycle", j.cyc>>, "rejected", j.v)

stepCatch(m, j) == Settle(m, <<"cycle", j.cyc>>, "rejected", j.v)

\* actionCatch as it would be if it annotated the error the way init does
actionCatch_Annotates(m, j) ==
    Settle(m, <<"cycle", j.cyc>>, "rejected", JText("Error Submitting action ", j.v))

actionCatch(m, j) == Settle(m, <<"cycle", j.cyc>>, "rejected", j.v)

-----------------------------------------------------------------------------
(* executeActionArray.  The promise it returns is the one derived by the   *)
(* first cycle's .then; it adopts each later cycle's, so it resolves when  *)
(* performAction falls off the end and rejects when a cycle rejects.       *)

\* index < actions.length
MoreActions(m, a) == m.index < Len(a.actions)

performAction(m, a) ==
    IF MoreActions(m, a)
    THEN LET c == m.index + 1
             m1 == simulateAgentAction([m EXCEPT !.index = @ + 1], c, a.simulation, a.agent,
                                       a.actions[m.index + 1], a.mode)
         IN  Then(m1, <<"cycle", c>>, "performActionThen", "performActionRejected")
    ELSE m

\* what performAction() returns: the derived promise, or nothing
performActionReturns(m, a) == IF MoreActions(m, a) THEN "promise" ELSE "undefined"

executeActionArray(m, a) ==
    LET m0 == [m EXCEPT !.index = 0]
        m1 == performAction(m0, a)
    IN  IF performActionReturns(m0, a) = "promise" THEN NewPromise(m1, <<"array", 0>>) ELSE m1

performActionThen(m, j, a) ==
    IF performActionReturns(m, a) = "promise"
    THEN performAction(m, a)
    ELSE Settle(m, <<"array", 0>>, "resolved", JUndef)

\* performActionRejected as it would be if the loop went on after a failure
performActionRejected_GoesOn(m, j) ==
    IF MoreActions(m, call)
    THEN performAction(m, call)
    ELSE Settle(m, <<"array", 0>>, "rejected", j.v)

\* a rejected cycle has no rejection handler: the derived promise rejects
performActionRejected(m, j) == Settle(m, <<"array", 0>>, "rejected", j.v)

-----------------------------------------------------------------------------
(* init and its six handlers.                                              *)

\* v.f : undefined when the object has no such property
Prop(v, f) == IF v.t = "object" /\ f \in DOMAIN v THEN v[f] ELSE JUndef

\* v.f throws a TypeError when v is undefined or null
Nullish(v) == v.t \in {"undefined", "null"}

\* JSON.parse on the texts that are JSON among those the values modelled
\* have or turn into; every other such text makes it throw.
JsonTable ==
    ("{\"a\":1}" :> [t |-> "object", a |-> JNum(1)])
    @@ ("{}" :> [t |-> "object"])
    @@ ("[1]" :> JArray(<<JNum(1)>>))
    @@ ("\"7\"" :> JStr("7"))
    @@ ("\"ok\"" :> JStr("ok"))
    @@ ("\"{\\\"a\\\":1}\"" :> JStr("{\"a\":1}"))
    @@ ("\"\\\"7\\\"\"" :> JStr("\"7\""))
    @@ ("0" :> JNum(0))
    @@ ("1" :> JNum(1))
    @@ ("2" :> JNum(2))
    @@ ("7" :> JNum(7))
    @@ ("1.5" :> JHalf(1))
    @@ ("null" :> JNull)

\* getObject as it would be if the catch returned null
getObject_NullOnError(d) ==
    LET text == ToStr(d)
    IN  IF "arg" \notin DOMAIN d /\ text \in DOMAIN JsonTable THEN JsonTable[text] ELSE JNull

\* JSON.parse(data), or data itself when JSON.parse throws.  JSON.parse
\* turns its argument into a string first.  A message built by this module
\* is no JSON text.
getObject(d) ==
    LET text == ToStr(d)
    IN  IF "arg" \notin DOMAIN d /\ text \in DOMAIN JsonTable THEN JsonTable[text] ELSE d

\* parseInt of the values an agent count takes
DecimalTable == ("0" :> 0) @@ ("1" :> 1) @@ ("2" :> 2) @@ ("3" :> 3)

parseInt(v) ==
    CASE v.t = "number" /\ "nan" \notin DOMAIN v -> JNum(v.n)
      [] v.t = "string" /\ "arg" \notin DOMAIN v /\ v.s \in DOMAIN DecimalTable -> JNum(DecimalTable[v.s])
      [] OTHER -> JNaN

\* the subtraction as it would be if the agent count itself were the index
MinusOne_Identity(v) == v

\* v - 1 for a number
MinusOne(v) == IF "nan" \in DOMAIN v THEN JNaN ELSE [v EXCEPT !.n = @ - 1]

\* init as it would be if it passed its argument on
init_UsesEnv(m, env) ==
    LET m1 == NewPromise(Invoke(m, "init", 0, JUndef, JUndef, JUndef, JUndef), <<"init", 0>>)
        m2 == createSimulation(m1, env)
    IN  Then(m2, <<"create", 0>>, "createThen", "createCatch")

init(m, env) ==
    LET m1 == NewPromise(Invoke(m, "init", 0, JUndef, JUndef, JUndef, JUndef), <<"init", 0>>)
        m2 == createSimulation(m1, JStr("HW1"))
    IN  Then(m2, <<"create", 0>>, "createThen", "createCatch")

createThen(m, j) ==
    IF Nullish(j.v)
    THEN ThrowInHandler(m, 0, "createCatch", JTypeError)
    ELSE LET m1 == startSimulation([m EXCEPT !.createResponse = j.v], Prop(j.v, "simulationId"))
         IN  Then(m1, <<"start", 0>>, "startThen", "startCatch")

startThen(m, j) ==
    LET simulationData == Prop(m.createResponse, "simulationData")
        res == [t |-> "object",
                simulationId |-> Prop(m.createResponse, "simulationId"),
                agents |-> parseInt(Prop(simulationData, "NumAgents")),
                createResponse |-> getObject(m.createResponse),
                startResponse |-> getObject(j.v),
                agentStatus |-> JUndef]
        m1 == getAgentStatus([m EXCEPT !.response = res], 0, res.simulationId, MinusOne(res.agents))
    IN  IF Nullish(simulationData)
        THEN ThrowInHandler(m, 0, "startCatch", JTypeError)
        ELSE Then(m1, <<"status", 0>>, "initStatusThen", "initStatusCatch")

initStatusThen(m, j) ==
    LET res == [m.response EXCEPT !.agentStatus = getObject(j.v)]
    IN  Settle([m EXCEPT !.response = res], <<"init", 0>>, "resolved", res)

initStatusCatch(m, j) ==
    Settle(m, <<"init", 0>>, "rejected", JText("Error getting agent status", j.v))

\* startCatch as it would be if it only logged the error
startCatch_OnlyLogs(m, j) == m

startCatch(m, j) == Settle(m, <<"init", 0>>, "rejected", JText("Error starting agent ", j.v))

createCatch(m, j) ==
    Settle(m, <<"init", 0>>, "rejected", JText("Error creating Simulation ", j.v))

-----------------------------------------------------------------------------
(* The state machine.                                                      *)

NoCall ==
    [op |-> "none", simulation |-> JUndef, agent |-> JUndef, action |-> JUndef,
     actions |-> <<>>, mode |-> JUndef, env |-> JUndef]

\* the values getObject is applied to on its own
GetObjectInputs ==
    {JStr(k) : k \in DOMAIN JsonTable}
    \cup {JStr("ok"), JStr(""), JStr("undefined"), JStr("fast")}
    \cup {JNum(0), JNum(1), JNum(7), JHalf(1), JNaN, JNull, JUndef}
    \cup (CreateBodies \cup DecodedBodies \cup {[t |-> "object"]})
    \cup {JArray(<<>>), JArray(<<JNum(1)>>), JArray(<<JNum(1), JNum(2)>>),
          JArray(<<JStr("7")>>), JArray(<<JStr("{\"a\":1}")>>)}
    \cup {JError("ECONNREFUSED")}

\* how many times in a row getObject is applied to its own result
MaxApplications == 3

Init ==
    /\ data = JUndef
    /\ decoded = <<>>
    /\ call = NoCall
    /\ returned = "none"
    /\ prom = [k \in PromKeys |-> NoPromise]
    /\ micro = <<>>
    /\ net = <<>>
    /\ open = {}
    /\ fired = {}
    /\ invoked = <<>>
    /\ index = 0
    /\ createResponse = JUndef
    /\ response = JUndef
    /\ uncaught = <<>>

\* --- the exported calls: the synchronous part of each

CallInit ==
    \E env \in EnvInputs :
        /\ call.op = "none"
        /\ call' = [NoCall EXCEPT !.op = "init", !.env = env]
        /\ returned' = "promise"
        /\ Becomes(init(M, env))

CallGetAgentStatus ==
    \E simulation \in SimulationInputs, agent \in AgentInputs :
        /\ call.op = "none"
        /\ call' = [NoCall EXCEPT !.op = "getAgentStatus", !.simulation = simulation,
                                  !.agent = agent]
        /\ returned' = "promise"
        /\ Becomes(getAgentStatus(M, 0, simulation, agent))

CallSimulateAgentAction ==
    \E simulation \in SimulationInputs, agent \in AgentInputs, action \in ActionInputs,
       mode \in ModeInputs :
        /\ call.op = "none"
        /\ call' = [NoCall EXCEPT !.op = "simulateAgentAction", !.simulation = simulation,
                                  !.agent = agent, !.action = action, !.mode = mode]
        /\ returned' = "promise"
        /\ Becomes(simulateAgentAction(M, 1, simulation, agent, action, mode))

CallExecuteActionArray ==
    \E simulation \in SimulationInputs, agent \in AgentInputs, actions \in ActionLists,
       mode \in ModeInputs :
        LET a == [NoCall EXCEPT !.op = "executeActionArray", !.simulation = simulation,
                                !.agent = agent, !.actions = actions, !.mode = mode]
        IN  /\ call.op = "none"
            /\ call' = a
            /\ returned' = performActionReturns([M EXCEPT !.index = 0], a)
            /\ Becomes(executeActionArray(M, a))

\* --- promise reactions: the job at the head of the microtask queue

Job == Head(micro)
Rest == [M EXCEPT !.micro = Tail(@)]
Runs(h) == micro # <<>> /\ Job.h = h

RunActionThen == Runs("actionThen") /\ Becomes(actionThen(Rest, Job, call)) /\ UNCHANGED <<call, returned>>
RunActionCatch == Runs("actionCatch") /\ Becomes(actionCatch(Rest, Job)) /\ UNCHANGED <<call, returned>>
RunStepThen == Runs("stepThen") /\ Becomes(stepThen(Rest, Job, call)) /\ UNCHANGED <<call, returned>>
RunStepCatch == Runs("stepCatch") /\ Becomes(stepCatch(Rest, Job)) /\ UNCHANGED <<call, returned>>
RunStatusThen == Runs("statusThen") /\ Becomes(statusThen(Rest, Job)) /\ UNCHANGED <<call, returned>>
RunStatusCatch == Runs("statusCatch") /\ Becomes(statusCatch(Rest, Job)) /\ UNCHANGED <<call, returned>>
RunPerformActionThen == Runs("performActionThen") /\ Becomes(performActionThen(Rest, Job, call)) /\ UNCHANGED <<call, returned>>
RunPerformActionRejected == Runs("performActionRejected") /\ Becomes(performActionRejected(Rest, Job)) /\ UNCHANGED <<call, returned>>
RunCreateThen == Runs("createThen") /\ Becomes(createThen(Rest, Job)) /\ UNCHANGED <<call, returned>>
RunCreateCatch == Runs("createCatch") /\ Becomes(createCatch(Rest, Job)) /\ UNCHANGED <<call, returned>>
RunStartThen == Runs("startThen") /\ Becomes(startThen(Rest, Job)) /\ UNCHANGED <<call, returned>>
RunStartCatch == Runs("startCatch") /\ Becomes(startCatch(Rest, Job)) /\ UNCHANGED <<call, returned>>
RunInitStatusThen == Runs("initStatusThen") /\ Becomes(initStatusThen(Rest, Job)) /\ UNCHANGED <<call, returned>>
RunInitStatusCatch == Runs("initStatusCatch") /\ Becomes(initStatusCatch(Rest, Job)) /\ UNCHANGED <<call, returned>>

\* --- transport callbacks: run only between jobs, with the microtask queue
\* drained; the transport answers any request still open, with any outcome

Fire(i, r) == [M EXCEPT !.open = @ \ {i}, !.fired = @ \cup {[i |-> i, r |-> r]}]
Answers(i, op) == micro = <<>> /\ i \in open /\ net[i].op = op

CreateCallback ==
    \E i \in open, r \in Outcomes("create") :
        /\ Answers(i, "create")
        /\ Becomes(createSimulationCallback(Fire(i, r), r))
        /\ UNCHANGED <<call, returned>>

StartCallback ==
    \E i \in open, r \in Outcomes("start") :
        /\ Answers(i, "start")
        /\ Becomes(startSimulationCallback(Fire(i, r), r))
        /\ UNCHANGED <<call, returned>>

StatusCallback ==
    \E i \in open, r \in Outcomes("status") :
        /\ Answers(i, "status")
        /\ Becomes(getAgentStatusCallback(Fire(i, r), net[i].cyc, r))
        /\ UNCHANGED <<call, returned>>

ActionCallback ==
    \E i \in open, r \in Outcomes("action") :
        /\ Answers(i, "action")
        /\ Becomes(performAgentActionCallback(Fire(i, r), net[i].cyc, r))
        /\ UNCHANGED <<call, returned>>

StepCallback ==
    \E i \in open, r \in Outcomes("step") :
        /\ Answers(i, "step")
        /\ Becomes(simulateStepCallback(Fire(i, r), net[i].cyc, r))
        /\ UNCHANGED <<call, returned>>

Next ==
    \/ CallInit
    \/ CallGetAgentStatus
    \/ CallSimulateAgentAction
    \/ CallExecuteActionArray
    \/ RunActionThen
    \/ RunActionCatch
    \/ RunStepThen
    \/ RunStepCatch
    \/ RunStatusThen
    \/ RunStatusCatch
    \/ RunPerformActionThen
    \/ RunPerformActionRejected
    \/ RunCreateThen
    \/ RunCreateCatch
    \/ RunStartThen
    \/ RunStartCatch
    \/ RunInitStatusThen
    \/ RunInitStatusCatch
    \/ CreateCallback
    \/ StartCallback
    \/ StatusCallback
    \/ ActionCallback
    \/ StepCallback

Spec == Init /\ [][Next]_vars

-----------------------------------------------------------------------------
(* performAgentAction and simulateStep on their own: one of them is called *)
(* with no reaction attached to its promise, and its request is answered.  *)

CallPerformAgentAction ==
    \E simulation \in SimulationInputs, agent \in AgentInputs, action \in ActionInputs,
       mode \in ModeInputs :
        /\ call.op = "none"
        /\ call' = [NoCall EXCEPT !.op = "performAgentAction", !.simulation = simulation,
                                  !.agent = agent, !.action = action, !.mode = mode]
        /\ returned' = "promise"
        /\ Becomes(performAgentAction(M, 1, simulation, agent, action, mode))

CallSimulateStep ==
    \E simulation \in SimulationInputs :
        /\ call.op = "none"
        /\ call' = [NoCall EXCEPT !.op = "simulateStep", !.simulation = simulation]
        /\ returned' = "promise"
        /\ Becomes(simulateStep(M, 1, simulation))

NextLeaf ==
    \/ CallPerformAgentAction
    \/ CallSimulateStep
    \/ ActionCallback
    \/ StepCallback

SpecLeaf == Init /\ [][NextLeaf]_vars

-----------------------------------------------------------------------------
(* getObject on its own: applied to a value, then to its own result.       *)

InitGetObject ==
    /\ data \in GetObjectInputs
    /\ decoded = <<>>
    /\ call = [NoCall EXCEPT !.op = "getObject"]
    /\ returned = "none"
    /\ prom = [k \in PromKeys |-> NoPromise]
    /\ micro = <<>>
    /\ net = <<>>
    /\ open = {}
    /\ fired = {}
    /\ invoked = <<>>
    /\ index = 0
    /\ createResponse = JUndef
    /\ response = JUndef
    /\ uncaught = <<>>

CallGetObject ==
    /\ Len(decoded) < MaxApplications
    /\ decoded' = Append(decoded, getObject(IF decoded = <<>> THEN data ELSE decoded[Len(decoded)]))
    /\ UNCHANGED <<call, returned, prom, micro, net, open, fired, invoked, index,
                   createResponse, response, uncaught, data>>

NextGetObject == CallGetObject

SpecGetObject == InitGetObject /\ [][NextGetObject]_vars

-----------------------------------------------------------------------------
(* Vocabulary of the properties.                                           *)

Cycles == 1..MaxActions
Invoked(fn, c) == \E i \in 1..Len(invoked) : invoked[i].fn = fn /\ invoked[i].cyc = c
Requested(op, c) == \E i \in 1..Len(net) : net[i].op = op /\ net[i].cyc = c
St(name, c) == prom[<<name, c>>].st
Val(name, c) == prom[<<name, c>>].val
\* the reactions have run: no job is queued
Drained == micro = <<>>
\* the promise the callback of a request settles
PromiseOf(q) ==
    <<CASE q.op = "create" -> "create"
        [] q.op = "start" -> "start"
        [] q.op = "status" -> "status"
        [] q.op = "action" -> "perform"
        [] q.op = "step" -> "step", q.cyc>>
\* the invocations of simulateAgentAction, in order
CycleCalls == SelectSeq(invoked, LAMBDA v : v.fn = "simulateAgentAction")
InChain == call.op \in {"init", "simulateAgentAction", "executeActionArray"}

-----------------------------------------------------------------------------
\* C1: in every action cycle simulateStep is invoked only once
\* performAgentAction's promise has resolved and getAgentStatus only once
\* simulateStep's has; a rejected stage leaves the later stages uninvoked,
\* and the cycle's promise rejects with exactly the rejected stage's error.
C1_CycleStagesInOrder ==
    \A c \in Cycles :
        /\ Invoked("simulateStep", c) => St("perform", c) = "resolved"
        /\ Invoked("getAgentStatus", c) => St("step", c) = "resolved"
        /\ St("perform", c) = "rejected" =>
               ~Invoked("simulateStep", c) /\ ~Invoked("getAgentStatus", c)
        /\ St("step", c) = "rejected" => ~Invoked("getAgentStatus", c)
        /\ \A stage \in {"perform", "step", "status"} :
               St(stage, c) = "rejected" /\ Drained =>
                   St("cycle", c) = "rejected" /\ Val("cycle", c) = Val(stage, c)
        /\ St("cycle", c) = "rejected" =>
               \E stage \in {"perform", "step", "status"} :
                   St(stage, c) = "rejected" /\ Val("cycle", c) = Val(stage, c)

\* a step request was answered 500: the cycle rejected with the step's
\* error and the status was never asked for
C1_Witness ==
    \E c \in Cycles :
        /\ St("perform", c) = "resolved"
        /\ St("step", c) = "rejected"
        /\ St("cycle", c) = "rejected"
        /\ Val("cycle", c) = Val("step", c)
        /\ ~Invoked("getAgentStatus", c)

\* C2: executeActionArray invokes simulateAgentAction with actions[1],
\* actions[2], ... in list order, each with the call's simulation, agent and
\* mode, and cycle i+1 only once cycle i has resolved; when the returned
\* promise has resolved there were exactly n invocations; when cycle k
\* rejects there were exactly k, and the returned promise rejects with
\* cycle k's error.
C2_ArrayRunsCyclesInOrder ==
    call.op = "executeActionArray" =>
        /\ Len(CycleCalls) <= Len(call.actions)
        /\ \A i \in 1..Len(CycleCalls) :
               /\ CycleCalls[i].cyc = i
               /\ CycleCalls[i].action = call.actions[i]
               /\ CycleCalls[i].simulation = call.simulation
               /\ CycleCalls[i].agent = call.agent
               /\ CycleCalls[i].mode = call.mode
               /\ i > 1 => St("cycle", i - 1) = "resolved"
        /\ St("array", 0) = "resolved" =>
               /\ Len(CycleCalls) = Len(call.actions)
               /\ \A i \in 1..Len(call.actions) : St("cycle", i) = "resolved"
        /\ \A k \in Cycles :
               St("cycle", k) = "rejected" =>
                   /\ Len(CycleCalls) = k
                   /\ Drained => St("array", 0) = "rejected" /\ Val("array", 0) = Val("cycle", k)
        /\ St("array", 0) = "rejected" =>
               \E k \in Cycles : St("cycle", k) = "rejected" /\ Val("array", 0) = Val("cycle", k)

\* the first cycle resolved, the second rejected, and the returned promise
\* rejected with the second cycle's error after two invocations
C2_Witness ==
    /\ call.op = "executeActionArray"
    /\ Len(call.actions) >= 2
    /\ St("cycle", 1) = "resolved"
    /\ St("cycle", 2) = "rejected"
    /\ St("array", 0) = "rejected"
    /\ Len(CycleCalls) = 2

\* C3: performAgentAction called with a simulationId or agentId that is not
\* an integer, an action outside AgentAction or a null mode rejects, and
\* issues no HTTP request.
C3_InvalidInputRejectsWithoutRequest ==
    \A i \in 1..Len(invoked) :
        LET v == invoked[i]
        IN  /\ v.fn = "performAgentAction"
            /\ \/ ~IsInteger(v.simulation)
               \/ ~IsInteger(v.agent)
               \/ ~IsAgentAction(v.action)
               \/ LooseEqNull(v.mode)
            => /\ St("perform", v.cyc) = "rejected"
               /\ ~Requested("action", v.cyc)

\* C4: under executeActionArray the requests issued are action, step,
\* status, action, step, status, ... cycle by cycle, and each request after
\* the first is issued only once the request before it has been answered and
\* its promise has resolved; so no action is submitted before the previous
\* action's step and status have completed.  A submission that resolved has
\* its step requested, and a step that resolved its status, as soon as the
\* reactions have run.
C4_RequestsFollowTheCycle ==
    call.op = "executeActionArray" =>
        /\ \A i \in 1..Len(net) :
               /\ net[i].op = <<"action", "step", "status">>[((i - 1) % 3) + 1]
               /\ net[i].cyc = ((i - 1) \div 3) + 1
               /\ i > 1 =>
                      /\ \E f \in fired : f.i = i - 1
                      /\ prom[PromiseOf(net[i - 1])].st = "resolved"
        /\ \A c \in Cycles :
               Drained =>
                   /\ St("perform", c) = "resolved" => Requested("step", c)
                   /\ St("step", c) = "resolved" => Requested("status", c)

\* a second action has been submitted, after the first one's step and status
C4_Witness ==
    /\ call.op = "executeActionArray"
    /\ Len(net) >= 4
    /\ net[4].op = "action"
    /\ net[4].body.action = call.actions[2]

\* C5: executeActionArray with an empty list resolves at once, with no
\* invocation of simulateAgentAction and no HTTP request.
C5_EmptyListResolves ==
    call.op = "executeActionArray" /\ call.actions = <<>> =>
        /\ returned = "promise"
        /\ St("array", 0) = "resolved"
        /\ Len(CycleCalls) = 0
        /\ net = <<>>

\* the success set of each operation
Succeeds(op, r) ==
    r.has /\ r.statusCode \in (IF op \in {"create", "action"} THEN {200, 201} ELSE {200})

\* C6: once the callback of a request has fired with an error and no
\* response, or with a status outside the operation's success set, the
\* operation's promise is rejected.
C6_FailedRequestRejects ==
    \A f \in fired :
        ~Succeeds(net[f.i].op, f.r) => prom[PromiseOf(net[f.i])].st = "rejected"

\* C7: init requests create, start, status in that order, each only once the
\* stage before it has resolved; a rejected create leaves start and status
\* unrequested, a rejected start leaves status unrequested, and once a stage
\* has rejected init's promise rejects.
C7_InitStagesInOrder ==
    call.op = "init" =>
        /\ Len(net) <= 3
        /\ \A i \in 1..Len(net) : net[i].op = <<"create", "start", "status">>[i]
        /\ Requested("start", 0) => St("create", 0) = "resolved"
        /\ Requested("status", 0) => St("start", 0) = "resolved"
        /\ St("create", 0) = "rejected" => ~Requested("start", 0) /\ ~Requested("status", 0)
        /\ St("start", 0) = "rejected" => ~Requested("status", 0)
        /\ \A stage \in {"create", "start", "status"} :
               St(stage, 0) = "rejected" /\ Drained => St("init", 0) = "rejected"

\* the start request failed: init rejected and never asked for the status
C7_Witness ==
    /\ call.op = "init"
    /\ St("create", 0) = "resolved"
    /\ St("start", 0) = "rejected"
    /\ St("init", 0) = "rejected"
    /\ Len(net) = 2

\* C8: startSimulation resolves exactly when the response status is 200 and
\* rejects on every other status, 201 included; createSimulation resolves on
\* 200 and on 201.
C8_StartNeedsExactly200 ==
    \A f \in fired :
        f.r.has =>
            /\ net[f.i].op = "start" =>
                   /\ St("start", 0) = "resolved" <=> f.r.statusCode = 200
                   /\ St("start", 0) = "rejected" <=> f.r.statusCode # 200
            /\ net[f.i].op = "create" =>
                   St("create", 0) = "resolved" <=> f.r.statusCode \in {200, 201}

\* a create answered 201 resolved, and the start answered 201 rejected
C8_Witness ==
    /\ \E f \in fired : net[f.i].op = "create" /\ f.r.has /\ f.r.statusCode = 201
    /\ \E f \in fired : net[f.i].op = "start" /\ f.r.has /\ f.r.statusCode = 201
    /\ St("create", 0) = "resolved"
    /\ St("start", 0) = "rejected"

\* C9: performAgentAction, called with valid arguments, rejects a 400
\* response with the '400 - ...' error, a 415 response with the '415 - ...'
\* error, and any other status outside 200/201 with the generic message
\* carrying the status code and the error.
C9_ThreeRejectionKinds ==
    \A f \in fired :
        LET q == net[f.i]
            valid == /\ ~InvalidSimulation(q.simulation)
                     /\ ~InvalidAgent(q.agent)
                     /\ ~InvalidAction(q.body.action)
                     /\ ~InvalidMode(q.body.mode)
            reason == Val("perform", q.cyc)
        IN  q.op = "action" /\ valid /\ f.r.has /\ f.r.statusCode \notin {200, 201} =>
                /\ St("perform", q.cyc) = "rejected"
                /\ f.r.statusCode = 400 =>
                       reason.t = "Error" /\ reason.s = "400 - Invalid actionid or simulationid "
                /\ f.r.statusCode = 415 =>
                       reason.t = "Error" /\ reason.s = "415 - no JSON specified"
                /\ f.r.statusCode \notin {400, 415} =>
                       reason.t = "string" /\ reason.s = " Error : " /\ reason.code = f.r.statusCode

\* C10: a chain started by init, simulateAgentAction or executeActionArray
\* has at most one request outstanding: every request but the last one
\* issued has been answered.
C10_OneRequestOutstanding == InChain => open \subseteq {Len(net)}

\* init has its third request outstanding, the two before it answered
C10_Witness ==
    /\ call.op = "init"
    /\ Len(net) = 3
    /\ open = {3}
    /\ Cardinality(fired) = 2

\* the text of the identifiers used in the properties
IdText == (0 :> "0") @@ (1 :> "1") @@ (2 :> "2")

\* C11: performAgentAction called with integer ids, one of the six
\* AgentAction values and a mode that is not null issues exactly one request:
\* a POST to simulations/{simulationId}/agents/{agentId}/action whose body is
\* {action, mode} with the caller's action and mode.
C11_ActionRequestAsDocumented ==
    \A i \in 1..Len(invoked) :
        LET v == invoked[i]
            reqs == {k \in 1..Len(net) : net[k].op = "action" /\ net[k].cyc = v.cyc}
        IN  /\ v.fn = "performAgentAction"
            /\ IsInteger(v.simulation)
            /\ IsInteger(v.agent)
            /\ v.action \in {JStr(a) : a \in {"moveForward", "turnLeft", "turnRight",
                                              "pickUp", "drop", "idle"}}
            /\ ~LooseEqNull(v.mode)
            => /\ Cardinality(reqs) = 1
               /\ \A k \in reqs :
                      /\ net[k].method = "POST"
                      /\ net[k].url = "https://sim.example.org/api/simulations/"
                                         \o IdText[v.simulation.n] \o "/agents/"
                                         \o IdText[v.agent.n] \o "/action"
                      /\ net[k].body = [t |-> "object", action |-> v.action, mode |-> v.mode]

\* pickUp was submitted for agent 0 of simulation 1, and its request answered
C11_Witness ==
    /\ \E i \in 1..Len(invoked) :
           /\ invoked[i].fn = "performAgentAction"
           /\ invoked[i].simulation = JNum(1)
           /\ invoked[i].agent = JNum(0)
           /\ invoked[i].action = JStr("pickUp")
           /\ invoked[i].mode = JStr("fast")
    /\ \E f \in fired : net[f.i].op = "action"
    /\ net[1].url = "https://sim.example.org/api/simulations/1/agents/0/action"

\* the value a text encodes, for the texts of the properties
IsJsonText(v) == v.t = "string" /\ v.s \in DOMAIN JsonTable
Encoded(v) == JsonTable[v.s]
\* unchanged by decoding: a plain object, a number, null, undefined, and a
\* string that is not JSON text
Plain(v) ==
    \/ v.t \in {"object", "number", "null", "undefined"}
    \/ v.t = "string" /\ ~IsJsonText(v)

\* C12 as stated: getObject decodes a string holding JSON text and returns
\* every other value unchanged, and applying it twice gives what applying it
\* once gives, for objects, plain strings and the JSON text of an object, a
\* string or a number.
C12_DecodesAndIsIdempotent ==
    LET covered == \/ Plain(data) /\ data.t \in {"object", "string"}
                   \/ IsJsonText(data) /\ Encoded(data).t \in {"object", "string", "number"}
    IN  covered =>
            /\ Len(decoded) >= 1 => decoded[1] = (IF IsJsonText(data) THEN Encoded(data) ELSE data)
            /\ Len(decoded) >= 2 => decoded[2] = decoded[1]

\* C12 amended: getObject decodes a string holding JSON text and returns a
\* plain object, a number, null, undefined and a string that is not JSON text
\* unchanged; applying it twice gives what applying it once gives for each of
\* those inputs whose decoded value is again one of the unchanged ones, that
\* is for all of them but the JSON text of a string that is itself JSON text
\* and the JSON text of an array.
C12_IdempotentUnlessDecodedIsJsonText ==
    /\ Len(decoded) >= 1 /\ IsJsonText(data) => decoded[1] = Encoded(data)
    /\ Len(decoded) >= 1 /\ Plain(data) => decoded[1] = data
    /\ /\ Len(decoded) >= 2
       /\ \/ Plain(data)
          \/ IsJsonText(data) /\ Plain(Encoded(data))
       => decoded[2] = decoded[1]

\* the text of a string holding the text of an object was decoded twice:
\* first to the inner text, then to the object
C12_Witness ==
    /\ data = JStr("\"{\\\"a\\\":1}\"")
    /\ Len(decoded) >= 2
    /\ decoded[1] = JStr("{\"a\":1}")
    /\ decoded[2] = [t |-> "object", a |-> JNum(1)]

\* C13: when init rejects, the annotation of the reason names the stage
\* whose request failed: "Error creating Simulation" only with the create
\* promise rejected, "Error starting agent" only with the start promise
\* rejected, "Error getting agent status" only with the status promise
\* rejected.
C13_AnnotationNamesFailedStage ==
    call.op = "init" /\ St("init", 0) = "rejected" =>
        LET reason == Val("init", 0)
        IN  /\ reason.s = "Error creating Simulation " => St("create", 0) = "rejected"
            /\ reason.s = "Error starting agent " => St("start", 0) = "rejected"
            /\ reason.s = "Error getting agent status" => St("status", 0) = "rejected"

\* the callback of the request of operation op has fired with outcome r
Answered(op, r) == \E f \in fired : net[f.i].op = op /\ f.r = r
HasAnswer(op) == \E f \in fired : net[f.i].op = op

\* the reason of the first check of performAgentAction that fails, the
\* checks taken in the order simulationId, agentId, action, mode
FirstViolated(simulation, agent, action, mode) ==
    CASE InvalidSimulation(simulation) -> JText("Invalid Simulation ID ", simulation)
      [] InvalidAgent(agent) -> JText("Invalid Agent ID ", agent)
      [] InvalidAction(action) -> JText("Invalid action ", action)
      [] OTHER -> JText("Invalid action ", mode)

\* C14: once performAgentAction has been called with an argument that fails
\* a check, its promise is rejected with the reason of the first failing
\* check in the order simulationId, agentId, action, mode, in every later
\* state, whatever answer the request has received since; likewise the
\* promise of simulateStep called with an invalid simulationId stays rejected
\* with that id's reason.
C14_FirstRejectionStands ==
    /\ /\ call.op = "performAgentAction"
       /\ \/ InvalidSimulation(call.simulation)
          \/ InvalidAgent(call.agent)
          \/ InvalidAction(call.action)
          \/ InvalidMode(call.mode)
       => /\ St("perform", 1) = "rejected"
          /\ Val("perform", 1)
                 = FirstViolated(call.simulation, call.agent, call.action, call.mode)
    /\ call.op = "simulateStep" /\ InvalidSimulation(call.simulation)
       => /\ St("step", 1) = "rejected"
          /\ Val("step", 1) = JText("Invalid Simulation ID ", call.simulation)

\* an invalid simulationId and an invalid action, the request answered 200,
\* and the promise still rejected for the simulationId
C14_Witness ==
    /\ call.op = "performAgentAction"
    /\ call.simulation = JHalf(1)
    /\ call.action = JStr("jump")
    /\ \E b \in DecodedBodies : Answered("action", Response(200, b))
    /\ St("perform", 1) = "rejected"
    /\ Val("perform", 1) = JText("Invalid Simulation ID ", JHalf(1))

\* C15: performAgentAction called with an integer simulationId, a
\* non-negative integer agentId, one of the six actions and a non-null mode,
\* and simulateStep called with an integer simulationId, are not rejected
\* before the request is answered, and once it is answered with a response
\* the promise is resolved exactly when the status is in the operation's
\* success set and rejected otherwise.
C15_EveryIntegerIdAccepted ==
    LET accepts(name, op) ==
            /\ ~HasAnswer(op) => St(name, 1) = "pending"
            /\ \A f \in fired :
                   f.r.has => St(name, 1) = (IF Succeeds(op, f.r) THEN "resolved" ELSE "rejected")
    IN  /\ /\ call.op = "performAgentAction"
           /\ IsInteger(call.simulation)
           /\ IsInteger(call.agent) /\ call.agent.n >= 0
           /\ IsAgentAction(call.action)
           /\ call.mode # JNull /\ call.mode # JUndef
           => accepts("perform", "action")
        /\ call.op = "simulateStep" /\ IsInteger(call.simulation)
           => accepts("step", "step")

\* C16: simulateStep called with a missing or non-integer simulationId
\* rejects and sends no step request; called with an integer simulationId its
\* promise is resolved only once the request has been answered with status
\* 200.
C16_StepRequestOnlyAfterValidation ==
    call.op = "simulateStep" =>
        /\ ~IsInteger(call.simulation)
           => St("step", 1) = "rejected" /\ ~Requested("step", 1)
        /\ IsInteger(call.simulation) /\ St("step", 1) = "resolved"
           => \E b \in DecodedBodies : Answered("step", Response(200, b))

\* the bodies of the successful create responses received
Created == {f.r.body : f \in {g \in fired : net[g.i].op = "create" /\ Succeeds("create", g.r)}}
\* a create body that names its agent count
HasCount(b) == b.t = "object" /\ b.simulationData.t = "object"
\* the integer its agent-count field holds, as a number or as decimal text
AgentCount(b) ==
    LET v == b.simulationData.NumAgents
    IN  IF v.t = "number" THEN v.n ELSE CHOOSE n \in DOMAIN IdText : IdText[n] = v.s

\* C17: in init, the start request and the status request are for the
\* simulationId of the create response, the status request is for the agent
\* agentCount - 1, agentCount being the integer in the create response's
\* NumAgents, and the result init resolves with has that simulationId and
\* that agentCount as its simulationId and agents.
C17_InitUsesCreatedIds ==
    call.op = "init" =>
        \A b \in Created :
            /\ \A i \in 1..Len(net) :
                   /\ net[i].op = "start" => net[i].simulation = b.simulationId
                   /\ net[i].op = "status" =>
                          /\ HasCount(b)
                          /\ net[i].simulation = b.simulationId
                          /\ net[i].agent = JNum(AgentCount(b) - 1)
            /\ St("init", 0) = "resolved" =>
                   /\ HasCount(b)
                   /\ Val("init", 0).simulationId = b.simulationId
                   /\ Val("init", 0).agents = JNum(AgentCount(b))

\* simulation 1 created with "2" agents: started, agent 1 asked for, and
\* init resolved with simulationId 1 and agents 2
C17_Witness ==
    /\ call.op = "init"
    /\ \E b \in Created : HasCount(b) /\ b.simulationId = JNum(1) /\ AgentCount(b) = 2
    /\ \E i \in 1..Len(net) : net[i].op = "start" /\ net[i].simulation = JNum(1)
    /\ \E i \in 1..Len(net) : net[i].op = "status" /\ net[i].agent = JNum(1)
    /\ St("init", 0) = "resolved"
    /\ Val("init", 0).agents = JNum(2)

\* the requests init may send, given the create responses received: none of
\* them depends on the env argument
InitRequests ==
    {[op |-> "create", method |-> "POST", url |-> apiBase \o "simulations/create", cyc |-> 0,
      simulation |-> JUndef, agent |-> JUndef,
      body |-> [t |-> "object", env_name |-> JStr("HW1")]]}
    \cup {[op |-> "start", method |-> "PUT",
           url |-> apiBase \o "simulations/" \o IdText[b.simulationId.n] \o "/start",
           cyc |-> 0, simulation |-> b.simulationId, agent |-> JUndef, body |-> JUndef] :
          b \in {c \in Created : c.t = "object"}}
    \cup {[op |-> "status", method |-> "GET",
           url |-> apiBase \o "simulations/" \o IdText[b.simulationId.n] \o "/agents/"
                           \o IdText[AgentCount(b) - 1] \o "/status",
           cyc |-> 0, simulation |-> b.simulationId, agent |-> JNum(AgentCount(b) - 1),
           body |-> JUndef] :
          b \in {c \in Created : HasCount(c)}}

\* C18: whatever env init is called with, its create request carries the
\* environment name "HW1", and every request init sends is determined by
\* the literal and the create response alone, not by env.
C18_EnvNeverSent ==
    call.op = "init" =>
        \A i \in 1..Len(net) :
            /\ net[i] \in InitRequests
            /\ net[i].op = "create" => net[i].body.env_name = JStr("HW1")

\* init("HW2") has sent its three requests, the first one for "HW1"
C18_Witness ==
    /\ call.op = "init"
    /\ call.env = JStr("HW2")
    /\ Len(net) = 3
    /\ net[1].op = "create"
    /\ net[1].body.env_name = JStr("HW1")

\* every request sent has been answered with a response and no job is left
AllAnswered == micro = <<>> /\ open = {} /\ \A f \in fired : f.r.has

\* C19: executeActionArray runs at most one cycle per action of the list,
\* its index counts the cycles begun and never exceeds the length of the
\* list, no action request is sent twice for one cycle, and once every
\* request sent has been answered with a response the returned promise is
\* resolved or rejected, for every list.
C19_ArrayRunReachesOutcome ==
    call.op = "executeActionArray" =>
        /\ index = Len(CycleCalls)
        /\ index <= Len(call.actions)
        /\ \A i, j \in 1..Len(net) :
               net[i].op = "action" /\ net[j].op = "action" /\ net[i].cyc = net[j].cyc => i = j
        /\ AllAnswered => St("array", 0) \in {"resolved", "rejected"}

====
